---- MODULE Spec2Model ----
(***************************************************************************)
(* Strawberry Fields: the driver of main.cc and the Optimizer pipeline     *)
(* (generate_rectangles, greedy_match, local_search, compute_convex_hull,  *)
(* label, output, reset) as a state machine.                               *)
(*                                                                         *)
(* A text line is a sequence of one-character strings.  A bitset is the    *)
(* set of its set bit positions (row * num_columns + column).  A Rectangle *)
(* is a record of the fields of class Rectangle; pointers to rectangles    *)
(* are the records themselves (the members of a cover have distinct        *)
(* bounds, so a record identifies the object).                             *)
(***************************************************************************)
EXTENDS Integers, Sequences, FiniteSets, TLC

\* ------------------------------------------------------------------ bounds
\* every field of at most MaxRows x MaxCols cells is explored, with every
\* cardinality bound K in 0..MaxK
MaxRows == 2
MaxCols == 3
MaxK == 3
\* input files of several puzzles hold at most MaxPuzzles puzzles
MaxPuzzles == 2

\* ------------------------------------------------------------- generalities
Min(S) == CHOOSE x \in S : \A y \in S : x <= y
Max(S) == CHOOSE x \in S : \A y \in S : x >= y
MinOf(a, b) == IF a <= b THEN a ELSE b
MaxOf(a, b) == IF a >= b THEN a ELSE b

RECURSIVE SumRange(_, _, _)
SumRange(s, lo, hi) ==
  IF lo > hi THEN 0
  ELSE IF lo = hi THEN s[lo]
  ELSE SumRange(s, lo, (lo + hi) \div 2) + SumRange(s, ((lo + hi) \div 2) + 1, hi)

SumSeq(s) == SumRange(s, 1, Len(s))

Reverse(s) == [i \in 1..Len(s) |-> s[Len(s) + 1 - i]]

\* std::erase(container, value): drop every element equal to value
Erase(s, v) == SelectSeq(s, LAMBDA e : e # v)

\* std::ranges::replace(container, old, new)
Replace(s, old, new) == [i \in 1..Len(s) |-> IF s[i] = old THEN new ELSE s[i]]

\* --------------------------------------------------------------- text input
Digits == <<"0", "1", "2", "3", "4", "5", "6", "7", "8", "9">>

\* std::isdigit
IsDigit(ch) == \E d \in 1..10 : Digits[d] = ch

DigitValue(ch) == (CHOOSE d \in 1..10 : Digits[d] = ch) - 1

\* std::stoi on a line whose first character is a digit: the value of the
\* longest prefix of decimal digits
RECURSIVE StoiFrom(_, _)
StoiFrom(line, acc) ==
  IF line = <<>> \/ ~IsDigit(Head(line)) THEN acc
  ELSE StoiFrom(Tail(line), 10 * acc + DigitValue(Head(line)))

Stoi(line) == StoiFrom(line, 0)

\* the decimal text of a natural number (the K line of a puzzle)
RECURSIVE ToDigits(_)
ToDigits(n) ==
  IF n < 10 THEN <<Digits[n + 1]>>
  ELSE Append(ToDigits(n \div 10), Digits[(n % 10) + 1])

\* process_field_line: the row of 0/1 cells of a text line; characters other
\* than '.' and '@' add no cell
RowOf(line) ==
  LET cells == SelectSeq(line, LAMBDA ch : ch = "." \/ ch = "@")
  IN  [i \in 1..Len(cells) |-> IF cells[i] = "@" THEN 1 ELSE 0]

\* process_field_line: the coordinates it adds to Global::strawberries; the
\* column is the index in the text line
BerriesOf(line, row) == {<<row, c - 1>> : c \in {i \in 1..Len(line) : line[i] = "@"}}

\* -------------------------------------------------------------------- state
VARIABLES
  input,           \* the lines of the input file
  pos,             \* index of the next line std::getline returns
  row_index,       \* main: row_index
  total_cost,      \* main: total_cost
  field,           \* Global::field
  strawberries,    \* Global::strawberries
  num_rows,        \* Global::num_rows
  num_columns,     \* Global::num_columns
  max_rectangles,  \* Optimizer::max_rectangles_
  rectangles,      \* Optimizer::rectangles_
  result,          \* Optimizer::result_
  covering,        \* Optimizer::covering_
  unmatched,       \* greedy_match: unmatched_strawberries
  shades,          \* local_search: the sorted vector of retained Shades
  out,             \* the blocks appended to the output file
  total_line,      \* the value of the "Total Cost:" line, -1 before it is written
  pc,              \* position of the program
  caller,          \* the call site of process_strawberry_field
  ties,            \* how the build's std::sort orders equivalent elements
  runs,            \* history: (K, field) of every call of Optimizer::run
  returned,        \* history: the integers returned by Optimizer::run
  covers,          \* history: the cover each run held when it finished
  steps,           \* history: the Shades local_search applied in this run
  probe            \* operands and results of a function applied on its own

vars == <<input, pos, row_index, total_cost, field, strawberries, num_rows,
          num_columns, max_rectangles, rectangles, result, covering, unmatched,
          shades, out, total_line, pc, caller, ties, runs, returned, covers,
          steps, probe>>

\* ---------------------------------------------------------------- Rectangle
\* Global::weight_of_rectangle: the sum of the field cells inside the bounds;
\* a cell is 0 or 1, so the sum is the number of cells that hold 1
WeightOfRectangle(x0, y0, x1, y1) ==
  Cardinality({c \in (x0..x1) \X (y0..y1) : field[c[1] + 1][c[2] + 1] = 1})

\* Rectangle(x0, y0, x1, y1, weight): label '\0' is the empty string
RectangleW(x0, y0, x1, y1, w) ==
  [x0 |-> x0, y0 |-> y0, x1 |-> x1, y1 |-> y1, weight |-> w, label |-> "",
   spun |-> FALSE, span |-> {}]

\* Rectangle(x0, y0, x1, y1): the weight is taken from the grid
Rectangle(x0, y0, x1, y1) ==
  RectangleW(x0, y0, x1, y1, WeightOfRectangle(x0, y0, x1, y1))

Area(r) == (r.y1 - r.y0 + 1) * (r.x1 - r.x0 + 1)

\* a cost without the fixed part of 10 per rectangle
CostOfArea(r) == Area(r)

Cost(r) == 10 + Area(r)

\* a span whose bits are numbered column by column
MakeSpanByColumns(r) ==
  IF r.spun THEN r
  ELSE [r EXCEPT !.span = {num_rows * y + x : x \in r.x0..r.x1, y \in r.y0..r.y1},
                 !.spun = TRUE]

\* Rectangle::make_span: sets the bits of the cells inside the bounds, once
MakeSpan(r) ==
  IF r.spun THEN r
  ELSE [r EXCEPT !.span = {num_columns * x + y : x \in r.x0..r.x1, y \in r.y0..r.y1},
                 !.spun = TRUE]

\* Rectangle::intersects and Rectangle::is_subset_of, on the bitsets
Intersects(r, other) == r.span \cap other.span # {}
IsSubsetOf(r, other) == r.span \subseteq other.span

\* Rectangle::operator<=> through Rectangle::better: weight_to_cost_ratio_ of
\* rect1 is less than that of rect2.  weight/(10+area) with integers below
\* 2^12 compares as the exact fractions do.
Better(rect1, rect2) == rect1.weight * Cost(rect2) < rect2.weight * Cost(rect1)

\* --------------------------------------------------------------------- sorts
\* A sort by a strict weak order; less[i][j] tells whether the comparison
\* puts s[i] before s[j].  Equivalent elements keep their order ("stable":
\* std::list::sort, insertion sort) or come out in the opposite order
\* ("reversed"): std::sort leaves their order to the implementation.
\* The place of s[i] in the result is the number of elements that come before
\* it.  (The operands and the places are bound as values, so that each is
\* computed once.)
SortBy(s, less, tie) ==
  LET Places(n, lt) ==
        [i \in 1..n |->
           Cardinality({j \in 1..n :
             \/ lt[j][i]
             \/ /\ ~lt[i][j]
                /\ IF tie = "stable" THEN j < i ELSE j > i})] \o <<>>
      Placed(sv, place) ==
        [k \in 1..Len(sv) |-> sv[CHOOSE i \in 1..Len(sv) : place[i] = k - 1]] \o <<>>
  IN  CHOOSE sorted \in
        UNION {{Placed(sv, place) : place \in {Places(Len(sv), lt)}} :
                 sv \in {s}, lt \in {less}} : TRUE

\* the comparisons of the elements of a cover or candidate list by
\* Rectangle::better
BetterTable(s) ==
  [i \in 1..Len(s) |-> [j \in 1..Len(s) |-> Better(s[i], s[j])] \o <<>>] \o <<>>

\* ------------------------------------------------------ generate_rectangles
\* the innermost loop without the pruning rule: every rectangle of positive
\* weight is emitted
RECURSIVE ChainUnpruned(_, _, _, _, _)
ChainUnpruned(row, col, right, down, weight) ==
  IF down >= num_rows THEN <<>>
  ELSE LET w == WeightOfRectangle(row, col, down, right)
       IN  IF w > 0
           THEN <<RectangleW(row, col, down, right, w)>>
                  \o ChainUnpruned(row, col, right, down + 1, w)
           ELSE ChainUnpruned(row, col, right, down + 1, weight)

\* a pruning rule that asks for a gain of two strawberries
RECURSIVE ChainByTwo(_, _, _, _, _)
ChainByTwo(row, col, right, down, weight) ==
  IF down >= num_rows THEN <<>>
  ELSE LET w == WeightOfRectangle(row, col, down, right)
       IN  IF w > weight + 1
           THEN <<RectangleW(row, col, down, right, w)>>
                  \o ChainByTwo(row, col, right, down + 1, w)
           ELSE ChainByTwo(row, col, right, down + 1, weight)

\* a chain that ends with its first emission
RECURSIVE ChainFirstOnly(_, _, _, _, _)
ChainFirstOnly(row, col, right, down, weight) ==
  IF down >= num_rows THEN <<>>
  ELSE LET w == WeightOfRectangle(row, col, down, right)
       IN  IF w > weight
           THEN <<RectangleW(row, col, down, right, w)>>
           ELSE ChainFirstOnly(row, col, right, down + 1, weight)

\* generate_rectangles, the innermost loop: down from `down` to the last row,
\* emitting a rectangle
\* when its weight exceeds the weight of the last emission of the chain
RECURSIVE Chain(_, _, _, _, _)
Chain(row, col, right, down, weight) ==
  IF down >= num_rows THEN <<>>
  ELSE LET w == WeightOfRectangle(row, col, down, right)
       IN  IF w > weight
           THEN <<RectangleW(row, col, down, right, w)>> \o Chain(row, col, right, down + 1, w)
           ELSE Chain(row, col, right, down + 1, weight)

\* the concatenation of seqs[lo], ..., seqs[hi]
RECURSIVE Concat(_, _, _)
Concat(seqs, lo, hi) ==
  IF lo > hi THEN <<>>
  ELSE IF lo = hi THEN seqs[lo]
  ELSE Concat(seqs, lo, (lo + hi) \div 2) \o Concat(seqs, ((lo + hi) \div 2) + 1, hi)

\* the loops over col and right >= col: the number of (col, right) pairs that
\* come before the pairs of column col
PairsBefore(col) == col * num_columns - ((col * (col - 1)) \div 2)

\* the loops over row, col and right >= col: the chains in the order the loops
\* visit them, and the rectangles they emit, in the order of emission
Emitted ==
  LET per_row == PairsBefore(num_columns)
      chain(k) ==
        LET row == (k - 1) \div per_row
            idx == (k - 1) % per_row
            col == Max({c \in 0..(num_columns - 1) : PairsBefore(c) <= idx})
            right == col + (idx - PairsBefore(col))
        IN  Chain(row, col, right, row, 0)
      emissions == [k \in 1..(num_rows * per_row) |-> chain(k)]
  IN  Concat(emissions, 1, num_rows * per_row)

\* a candidate list without the rectangles of a single strawberry
GeneratedRectanglesHeavy ==
  LET Heavy(r) == r.weight >= 2
  IN  CHOOSE sorted \in
        {SortBy(emitted, BetterTable(emitted), ties) :
           emitted \in {SelectSeq(Emitted, Heavy)}} : TRUE

\* the candidates sorted the other way round, the best ratio first
GeneratedRectanglesDescending ==
  CHOOSE reversed \in
      {[i \in 1..Len(sorted) |-> sorted[Len(sorted) + 1 - i]] \o <<>> :
         sorted \in {SortBy(emitted, BetterTable(emitted), ties) : emitted \in {Emitted}}} :
    TRUE

\* the candidates in the order of emission, without the sort
GeneratedRectanglesUnsorted == Emitted

\* generate_rectangles: the candidates, sorted ascending by Rectangle::better
GeneratedRectangles ==
  CHOOSE sorted \in {SortBy(emitted, BetterTable(emitted), ties) : emitted \in {Emitted}} :
    TRUE

\* ------------------------------------------------------ find_next_rectangle
\* the loop without the test of the covering mask: the back is taken whatever
\* it meets
PopLoopUnmasked(list) ==
  [r |-> MakeSpan(list[Len(list)]), rest |-> SubSeq(list, 1, Len(list) - 1)]

\* the loop with the condition !rectangles_.empty() alone: it pops every
\* candidate and ends on the first of the list
PopLoopToFront(list) ==
  [r |-> MakeSpan(list[1]), rest |-> SubSeq(list, 1, 0)]

\* find_next_rectangle, the do-while loop: take the back, materialize its span, pop it; go on while
\* it meets the covering mask and candidates remain.  It stops at the last
\* candidate whose span misses the mask, or at the first of the list.
PopLoop(list) ==
  LET stop == Max({i \in 1..Len(list) : covering \cap MakeSpan(list[i]).span = {}} \cup {1})
  IN  [r |-> MakeSpan(list[stop]), rest |-> SubSeq(list, 1, stop - 1)]

\* find_next_rectangle, called with a non-empty candidate list: the rectangle
\* it returns and the candidate list it leaves.  While the covering mask is
\* empty the back is returned and stays in the list.
FindNextRectangle ==
  IF covering # {}
  THEN PopLoop(rectangles)
  ELSE [r |-> MakeSpan(rectangles[Len(rectangles)]),
        rest |-> [rectangles EXCEPT ![Len(rectangles)] = MakeSpan(@)]]

\* unmatched_strawberries that holds the strawberries of the first row only
StrawberryBitsFirstRow ==
  {num_columns * b[1] + b[2] : b \in {c \in strawberries : c[1] = 0}}

\* greedy_match: the bits of unmatched_strawberries
StrawberryBits ==
  {num_columns * b[1] + b[2] : b \in {c \in strawberries :
      num_columns * c[1] + c[2] < num_columns * num_rows}}

\* ---------------------------------------------- determine_intersection_type
kVoid == -2
kDecreasing == -1
kNonIncreasing == 0
kIncreasing == 1

\* Slice(r): the slice of r before classification
Slice(r) ==
  [original |-> r, intersection |-> kVoid, top_left_row |-> -1,
   top_left_column |-> -1, bottom_right_row |-> -1, bottom_right_column |-> -1]

\* a classifier that takes the first and the last bit of left_over as corners
\* without comparing the rectangle between them with left_over
DetermineIntersectionTypeByCorners(r3, join) ==
  IF ~Intersects(r3, join) THEN Slice(r3)
  ELSE IF IsSubsetOf(r3, join) THEN [Slice(r3) EXCEPT !.intersection = kDecreasing]
  ELSE
    LET left_over == r3.span \ join.span
        first_pos == Min(left_over)
        last_pos == Max(left_over)
        rows == {(p - (p % num_columns)) \div num_columns : p \in left_over}
        columns == {p % num_columns : p \in left_over}
    IN  IF /\ (first_pos - (first_pos % num_columns)) \div num_columns = Min(rows)
           /\ first_pos % num_columns = Min(columns)
           /\ (last_pos - (last_pos % num_columns)) \div num_columns = Max(rows)
           /\ last_pos % num_columns = Max(columns)
        THEN [original |-> r3, intersection |-> kNonIncreasing,
              top_left_row |-> Min(rows), top_left_column |-> Min(columns),
              bottom_right_row |-> Max(rows), bottom_right_column |-> Max(columns)]
        ELSE [Slice(r3) EXCEPT !.intersection = kIncreasing]

\* determine_intersection_type(r3, join, &s): the slice it leaves in s
DetermineIntersectionType(r3, join) ==
  IF ~Intersects(r3, join) THEN Slice(r3)
  ELSE IF IsSubsetOf(r3, join) THEN [Slice(r3) EXCEPT !.intersection = kDecreasing]
  ELSE
    LET left_over == r3.span \ join.span
        first_pos == Min(left_over)
        last_pos == Max(left_over)
        rows == {(p - (p % num_columns)) \div num_columns : p \in left_over}
        columns == {p % num_columns : p \in left_over}
        top_left_column == first_pos % num_columns
        top_left_row == (first_pos - top_left_column) \div num_columns
        bottom_right_column == last_pos % num_columns
        bottom_right_row == (last_pos - bottom_right_column) \div num_columns
        test == {bp \in {i * num_columns + j : i \in top_left_row..bottom_right_row,
                                               j \in top_left_column..bottom_right_column} :
                   bp < num_rows * num_columns}
        is_valid_bounds == /\ top_left_row = Min(rows)
                           /\ top_left_column = Min(columns)
                           /\ bottom_right_row = Max(rows)
                           /\ bottom_right_column = Max(columns)
        is_rectangle == is_valid_bounds /\ test = left_over
    IN  IF is_rectangle
        THEN [original |-> r3, intersection |-> kNonIncreasing,
              top_left_row |-> top_left_row, top_left_column |-> top_left_column,
              bottom_right_row |-> bottom_right_row,
              bottom_right_column |-> bottom_right_column]
        ELSE [Slice(r3) EXCEPT !.intersection = kIncreasing]

\* Slice::operator<=>
SliceLess(s1, s2) == s1.intersection < s2.intersection

\* ------------------------------------------------------------------- Shade
\* join_rectangles: the hull of r1 and r2, with its span
JoinRectangles(r1, r2) ==
  MakeSpan(Rectangle(MinOf(r1.x0, r2.x0), MinOf(r1.y0, r2.y0),
                     MaxOf(r1.x1, r2.x1), MaxOf(r1.y1, r2.y1)))

\* a penalty that leaves out the cells the penumbra members lose
PenaltyWithoutPenumbra(shade) ==
  LET envelope_cost == SumSeq([i \in 1..Len(shade.envelope) |-> Cost(shade.envelope[i])])
  IN  Cost(shade.join) - (Cost(shade.rec1) + Cost(shade.rec2) + envelope_cost)

\* Shade::penalty
Penalty(shade) ==
  LET envelope_cost == SumSeq([i \in 1..Len(shade.envelope) |-> Cost(shade.envelope[i])])
      penumbra_cost == SumSeq([i \in 1..Len(shade.penumbra) |->
                          Area(shade.penumbra[i].original) - Area(shade.penumbra[i].slice)])
  IN  Cost(shade.join) - (Cost(shade.rec1) + Cost(shade.rec2) + envelope_cost + penumbra_cost)

\* an order by penalty alone
ShadeLessByPenalty(a, b) == Penalty(a) < Penalty(b)

\* the opposite order: the Shade of the greatest penalty comes first
ShadeLessWorstFirst(a, b) == Penalty(a) > Penalty(b)

\* Shade::operator<
ShadeLess(a, b) ==
  IF Penalty(a) = Penalty(b)
  THEN Len(a.envelope) < Len(b.envelope)
  ELSE Penalty(a) < Penalty(b)

\* ------------------------------------------------------------ local_search
\* the pairs (it1, it2) with it2 after it1, in the order of the two loops
RECURSIVE PairsFrom(_, _, _)
PairsFrom(i, j, n) ==
  IF i >= n THEN <<>>
  ELSE IF j > n THEN PairsFrom(i + 1, i + 2, n)
  ELSE <<(<<i, j>>)>> \o PairsFrom(i, j + 1, n)

\* the slices of the members other than r1 and r2 with respect to join, in
\* the order of result_
Classified(r1, r2, join) ==
  LET difference_set == SelectSeq(result, LAMBDA r : r # r1 /\ r # r2)
  IN  [k \in 1..Len(difference_set) |->
         DetermineIntersectionType(difference_set[k], join)]

\* std::sort(slices.begin(), slices.end())
SortSlices(met) ==
  SortBy(met, [a \in 1..Len(met) |-> [b \in 1..Len(met) |->
                 SliceLess(met[a], met[b])]], ties)

\* the slices that are not Void, sorted
SortedSlices(classified) ==
  SortSlices(SelectSeq(classified, LAMBDA sl : sl.intersection # kVoid))

\* whether the Shade of r1 and r2 is pushed to shades, and the Shade with its
\* envelope and penumbra.  `kinds` records the intersection types of the
\* slices the Shade was built from.
ShadeOf(r1, r2, join, slices) ==
  LET retained == slices = <<>> \/ slices[Len(slices)].intersection # kIncreasing
      filled == IF retained THEN slices ELSE <<>>
      decreasing == SelectSeq(filled, LAMBDA sl : sl.intersection = kDecreasing)
      others == SelectSeq(filled, LAMBDA sl : sl.intersection # kDecreasing)
  IN  [retained |-> retained,
       shade |->
         [rec1 |-> r1, rec2 |-> r2, join |-> join,
          envelope |-> [k \in 1..Len(decreasing) |-> decreasing[k].original],
          penumbra |-> [k \in 1..Len(others) |->
             [original |-> others[k].original,
              slice |-> MakeSpan(Rectangle(others[k].top_left_row,
                                           others[k].top_left_column,
                                           others[k].bottom_right_row,
                                           others[k].bottom_right_column))]],
          kinds |-> [k \in 1..Len(slices) |-> slices[k].intersection]]]

ShadeWithJoin(r1, r2, join) ==
  ShadeOf(r1, r2, join, SortedSlices(Classified(r1, r2, join)))

\* the body of the pair loop for r1 = result[i], r2 = result[j]
ShadeOfPair(i, j) ==
  ShadeWithJoin(result[i], result[j], JoinRectangles(result[i], result[j]))

\* the Shades of all pairs, in the order of the loops
BuiltShades ==
  LET pairs == PairsFrom(1, 2, Len(result))
  IN  [k \in 1..Len(pairs) |-> ShadeOfPair(pairs[k][1], pairs[k][2])]

\* those of them that are pushed to shades
ShadesOf(built) ==
  LET kept == SelectSeq(built, LAMBDA b : b.retained)
  IN  [k \in 1..Len(kept) |-> kept[k].shade]

\* the Shades the pair loop retains, in the order it pushes them
RetainedShades == ShadesOf(BuiltShades)

\* std::sort(shades.begin(), shades.end())
SortShades(retained) ==
  SortBy(retained, [a \in 1..Len(retained) |-> [b \in 1..Len(retained) |->
                      ShadeLess(retained[a], retained[b])]], ties)

SortedShades == SortShades(RetainedShades)

\* the application of one (original, slice) pair after another
RECURSIVE ReplaceAll(_, _)
ReplaceAll(cover, penumbra) ==
  IF penumbra = <<>> THEN cover
  ELSE ReplaceAll(Replace(cover, Head(penumbra).original, Head(penumbra).slice),
                  Tail(penumbra))

RECURSIVE EraseAll(_, _)
EraseAll(cover, envelope) ==
  IF envelope = <<>> THEN cover
  ELSE EraseAll(Erase(cover, Head(envelope)), Tail(envelope))

\* an application that puts the join in front of the cover
ApplyShadeJoinFirst(cover, best) ==
  ReplaceAll(EraseAll(<<best.join>> \o Erase(Erase(cover, best.rec1), best.rec2),
                      best.envelope),
             best.penumbra)

\* an application that leaves the envelope in the cover
ApplyShadeKeepEnvelope(cover, best) ==
  ReplaceAll(Append(Erase(Erase(cover, best.rec1), best.rec2), best.join),
             best.penumbra)

\* an application that leaves rec2 in the cover
ApplyShadeKeepRec2(cover, best) ==
  ReplaceAll(EraseAll(Append(Erase(cover, best.rec1), best.join), best.envelope),
             best.penumbra)

\* local_search, the best Shade applied without result_.push_back(best.join)
ApplyShadeWithoutJoin(cover, best) ==
  ReplaceAll(EraseAll(Erase(Erase(cover, best.rec1), best.rec2), best.envelope),
             best.penumbra)

\* the cover after the best Shade is applied
ApplyShade(cover, best) ==
  ReplaceAll(EraseAll(Append(Erase(Erase(cover, best.rec1), best.rec2), best.join),
                      best.envelope),
             best.penumbra)

\* an apply condition that always holds
ShouldApplyAlways(best) == TRUE

\* an apply condition that ignores the cardinality bound
ShouldApplyImproving(best) == Penalty(best) <= 0

\* the test with result_.size() >= max_rectangles_
ShouldApplyAtBound(best) == Penalty(best) <= 0 \/ Len(result) >= max_rectangles

\* the condition under which the best Shade is applied
ShouldApply(best) == Penalty(best) <= 0 \/ Len(result) > max_rectangles

\* ------------------------------------------------------------------- label
Alphabet ==
  <<"A", "B", "C", "D", "E", "F", "G", "H", "I", "J", "K", "L", "M",
    "N", "O", "P", "Q", "R", "S", "T", "U", "V", "W", "X", "Y", "Z",
    "a", "b", "c", "d", "e", "f", "g", "h", "i", "j", "k", "l", "m",
    "n", "o", "p", "q", "r", "s", "t", "u", "v", "w", "x", "y", "z">>

\* the label of the member at position index (0-based) of the sorted cover
LabelAt(index) == IF index < Len(Alphabet) THEN Alphabet[index + 1] ELSE "0"

\* label() without the reverse: the least ratio comes first
LabelledAscending(cover) ==
  LET sorted == SortBy(cover, BetterTable(cover), "stable")
  IN  [i \in 1..Len(sorted) |-> [sorted[i] EXCEPT !.label = LabelAt(i - 1)]]

\* label(): std::list::sort (stable) by Rectangle::better, reverse, then the
\* labels in order
Labelled(cover) ==
  LET sorted == Reverse(SortBy(cover, BetterTable(cover), "stable"))
  IN  [i \in 1..Len(sorted) |-> [sorted[i] EXCEPT !.label = LabelAt(i - 1)]]

\* ------------------------------------------------------------------ output
\* a sum that leaves out the fixed cost of 10 per member
CoverCostOfAreas(cover) == SumSeq([i \in 1..Len(cover) |-> Area(cover[i])])

\* the sum of the costs of the members, as run() and output() add them up
CoverCost(cover) == SumSeq([i \in 1..Len(cover) |-> Cost(cover[i])])

\* a field block in which every member writes the label of the first member
PaintFirstLabel(grid, cover) ==
  [row \in 1..Len(grid) |-> [col \in 1..Len(grid[row]) |->
     IF \E i \in 1..Len(cover) :
          num_columns * (row - 1) + (col - 1) \in cover[i].span
     THEN cover[1].label ELSE grid[row][col]]]

\* output(): the characters of the field block; members are written in cover
\* order, a later member overwriting an earlier one
Paint(grid, cover) ==
  [row \in 1..Len(grid) |-> [col \in 1..Len(grid[row]) |->
     LET writers == {i \in 1..Len(cover) :
                       num_columns * (row - 1) + (col - 1) \in cover[i].span}
     IN  IF writers = {} THEN grid[row][col] ELSE cover[Max(writers)].label]]

OutputBlock ==
  [cardinality |-> Len(result),
   cost |-> CoverCost(result),
   rule |-> num_columns,
   grid |-> Paint([row \in 1..num_rows |-> [col \in 1..num_columns |-> "."]], result)]

\* ------------------------------------------------------------- input files
\* the text lines of the m x n field whose strawberries are at `berries`
FieldOf(m, n, berries) ==
  [i \in 1..m |-> [j \in 1..n |-> IF <<i - 1, j - 1>> \in berries THEN "@" ELSE "."]]

\* every field of at most MaxRows x MaxCols cells
DenseFields ==
  UNION {[1..m -> [1..n -> {".", "@"}]] : m \in 1..MaxRows, n \in 1..MaxCols}

\* larger fields with few strawberries, where joins are not always cheaper
\* than their parts (a join of two 1x1 rectangles pays off only below 13 cells)
SparseFields ==
  { FieldOf(1, 5, {<<0, 0>>, <<0, 4>>}),
    FieldOf(14, 1, {<<0, 0>>, <<13, 0>>}),
    FieldOf(25, 1, {<<0, 0>>, <<12, 0>>, <<24, 0>>}),
    FieldOf(16, 1, {<<0, 0>>, <<1, 0>>, <<15, 0>>}),
    FieldOf(20, 1, {<<0, 0>>, <<6, 0>>, <<7, 0>>, <<19, 0>>}),
    FieldOf(3, 3, {<<0, 0>>, <<0, 2>>, <<2, 0>>, <<2, 2>>}),
    FieldOf(3, 4, {<<0, 3>>, <<1, 0>>, <<1, 1>>, <<1, 2>>, <<1, 3>>, <<2, 3>>}),
    FieldOf(3, 4, {<<0, 3>>, <<1, 0>>, <<1, 1>>, <<1, 2>>, <<1, 3>>, <<2, 0>>}),
    FieldOf(3, 4, {<<0, 2>>, <<1, 0>>, <<1, 1>>, <<1, 2>>, <<1, 3>>, <<2, 2>>}),
    FieldOf(4, 4, {<<0, 3>>, <<3, 0>>}),
    FieldOf(4, 4, {<<0, 3>>, <<3, 0>>, <<3, 3>>}),
    FieldOf(20, 1, {<<0, 0>>, <<7, 0>>, <<8, 0>>, <<19, 0>>}),
    FieldOf(5, 7, {<<0, 6>>, <<1, 6>>, <<2, 2>>, <<2, 4>>, <<2, 5>>, <<3, 0>>,
                   <<4, 5>>}),
    FieldOf(17, 5, {<<0, 0>>, <<2, 4>>, <<7, 0>>, <<7, 4>>, <<14, 4>>, <<16, 0>>}) }

\* fields of one row, 5 or 12 cells wide, with two strawberries
OneRowPairs ==
  UNION {{FieldOf(1, n, {<<0, p[1]>>, <<0, p[2]>>}) :
            p \in {q \in (0..(n - 1)) \X (0..(n - 1)) : q[1] < q[2]}} :
         n \in {5, 12}}

Fields == DenseFields \cup SparseFields \cup OneRowPairs

\* a puzzle: the K line, then the field lines
PuzzleLines(k, f) == <<ToDigits(k)>> \o f

BlankLines(n) == [i \in 1..n |-> <<>>]

\* files of one puzzle, ended by the end of the file
SingleFiles == {PuzzleLines(k, f) : k \in 0..MaxK, f \in Fields}

\* the puzzles of the files of several puzzles
TinyPuzzles ==
  {PuzzleLines(k, f) : k \in 1..2,
                       f \in {FieldOf(1, 1, {<<0, 0>>}),
                               FieldOf(1, 1, {}),
                               FieldOf(2, 2, {<<0, 1>>, <<1, 0>>})}}

\* n puzzles, each followed by one or two empty lines
RECURSIVE PuzzleSequences(_)
PuzzleSequences(n) ==
  IF n = 0 THEN {<<>>}
  ELSE {p \o BlankLines(b) \o rest :
          p \in TinyPuzzles, b \in 1..2, rest \in PuzzleSequences(n - 1)}

\* files of up to MaxPuzzles puzzles: empty lines may come first, and the
\* last puzzle may end at the end of the file
MultiFiles ==
  LET ended == UNION {PuzzleSequences(n) : n \in 0..MaxPuzzles}
      open == {SubSeq(file, 1, Len(file) - 1) :
                 file \in {g \in UNION {PuzzleSequences(n) : n \in 1..MaxPuzzles} :
                              Len(g) < 2 \/ g[Len(g) - 1] # <<>>}}
  IN  {BlankLines(lead) \o file : lead \in 0..1, file \in ended \cup open}

InputFiles == SingleFiles \cup MultiFiles

\* ----------------------------------------------------------------- actions
\* no function is applied on its own while main runs
NoProbe == [calls |-> 0]

Init ==
  /\ input \in InputFiles
  /\ ties \in {"stable", "reversed"}
  /\ pos = 1
  /\ row_index = -1
  /\ total_cost = 0
  /\ field = <<>>
  /\ strawberries = {}
  /\ num_rows = 0
  /\ num_columns = 0
  /\ max_rectangles = 0
  /\ rectangles = <<>>
  /\ result = <<>>
  /\ covering = {}
  /\ unmatched = {}
  /\ shades = <<>>
  /\ out = <<>>
  /\ total_line = -1
  /\ pc = "read"
  /\ caller = "none"
  /\ runs = <<>>
  /\ returned = <<>>
  /\ covers = <<>>
  /\ steps = <<>>
  /\ probe = NoProbe

\* process_strawberry_field up to the call of optimizer.run()
CallRun(site) ==
  /\ num_rows' = Len(field)
  /\ num_columns' = Len(field[1])
  /\ caller' = site
  /\ pc' = "run"
  /\ runs' = Append(runs, [K |-> max_rectangles, field |-> field])

\* main loop, an empty line: process_strawberry_field, then row_index = -1
ReadEmptyLine ==
  /\ pc = "read"
  /\ pos <= Len(input)
  /\ input[pos] = <<>>
  /\ pos' = pos + 1
  /\ IF field = <<>>
     THEN /\ row_index' = -1
          /\ UNCHANGED <<num_rows, num_columns, caller, pc, runs>>
     ELSE /\ CallRun("loop")
          /\ UNCHANGED row_index
  /\ UNCHANGED <<probe, input, total_cost, field, strawberries, max_rectangles,
                 rectangles, result, covering, unmatched, shades, out,
                 total_line, ties, returned, covers, steps>>

\* main loop, a line that starts with a digit: set_max_rectangles(stoi(line))
ReadKLine ==
  /\ pc = "read"
  /\ pos <= Len(input)
  /\ input[pos] # <<>>
  /\ IsDigit(input[pos][1])
  /\ pos' = pos + 1
  /\ max_rectangles' = Stoi(input[pos])
  /\ UNCHANGED <<probe, input, row_index, total_cost, field, strawberries, num_rows,
                 num_columns, rectangles, result, covering, unmatched, shades,
                 out, total_line, pc, caller, ties, runs, returned, covers, steps>>

\* main loop, any other line: ++row_index; process_field_line
ReadFieldLine ==
  /\ pc = "read"
  /\ pos <= Len(input)
  /\ input[pos] # <<>>
  /\ ~IsDigit(input[pos][1])
  /\ pos' = pos + 1
  /\ row_index' = row_index + 1
  /\ field' = Append(field, RowOf(input[pos]))
  /\ strawberries' = strawberries \cup BerriesOf(input[pos], row_index + 1)
  /\ UNCHANGED <<probe, input, total_cost, num_rows, num_columns, max_rectangles,
                 rectangles, result, covering, unmatched, shades, out,
                 total_line, pc, caller, ties, runs, returned, covers, steps>>

\* main after the loop: the last field if there is one, else the total line
AtEndOfFile ==
  /\ pc = "read"
  /\ pos > Len(input)
  /\ IF field # <<>>
     THEN /\ CallRun("final")
          /\ UNCHANGED total_line
     ELSE /\ total_line' = total_cost
          /\ pc' = "done"
          /\ UNCHANGED <<num_rows, num_columns, caller, runs>>
  /\ UNCHANGED <<probe, input, pos, row_index, total_cost, field, strawberries,
                 max_rectangles, rectangles, result, covering, unmatched,
                 shades, out, ties, returned, covers, steps>>

\* run(), K > 1: generate_rectangles()
GenerateRectangles ==
  /\ pc = "run"
  /\ max_rectangles > 1
  /\ rectangles' = GeneratedRectangles
  /\ pc' = "greedy"
  /\ UNCHANGED <<probe, input, pos, row_index, total_cost, field, strawberries,
                 num_rows, num_columns, max_rectangles, result, covering,
                 unmatched, shades, out, total_line, caller, ties, runs,
                 returned, covers, steps>>

\* greedy_match() up to its loop: assert(covering_.none()), which ends the
\* program in a build that keeps assertions; the strawberry bits; the resize
GreedyMatchBegin ==
  /\ pc = "greedy"
  /\ IF covering = {}
     THEN /\ pc' = "match"
          /\ unmatched' = StrawberryBits
     ELSE /\ pc' \in {"match", "crashed"}
          /\ unmatched' = IF pc' = "match" THEN StrawberryBits ELSE unmatched
  /\ UNCHANGED <<probe, input, pos, row_index, total_cost, field, strawberries,
                 num_rows, num_columns, max_rectangles, rectangles, result,
                 covering, shades, out, total_line, caller, ties, runs,
                 returned, covers, steps>>

\* greedy_match(), one iteration of its loop.  rectangles_.back() of an empty
\* vector is undefined; the model ends the program there.
GreedyMatchStep ==
  /\ pc = "match"
  /\ unmatched # {}
  /\ IF rectangles = <<>>
     THEN /\ pc' = "crashed"
          /\ UNCHANGED <<rectangles, covering, result, unmatched>>
     ELSE LET found == FindNextRectangle
          IN  /\ rectangles' = found.rest
              /\ covering' = covering \cup found.r.span
              /\ result' = Append(result, found.r)
              /\ unmatched' = unmatched \ (covering \cup found.r.span)
              /\ pc' = "match"
  /\ UNCHANGED <<probe, input, pos, row_index, total_cost, field, strawberries,
                 num_rows, num_columns, max_rectangles, shades, out,
                 total_line, caller, ties, runs, returned, covers, steps>>

\* greedy_match() after its loop, without covering_.clear()
GreedyMatchEndKeepMask ==
  /\ pc = "match"
  /\ unmatched = {}
  /\ rectangles' = <<>>
  /\ pc' = "local"
  /\ UNCHANGED <<probe, input, pos, row_index, total_cost, field, strawberries,
                 num_rows, num_columns, max_rectangles, result, covering,
                 unmatched, shades, out, total_line, caller, ties, runs,
                 returned, covers, steps>>

\* greedy_match() after its loop: rectangles_.clear(); covering_.clear()
GreedyMatchEnd ==
  /\ pc = "match"
  /\ unmatched = {}
  /\ rectangles' = <<>>
  /\ covering' = {}
  /\ pc' = "local"
  /\ UNCHANGED <<probe, input, pos, row_index, total_cost, field, strawberries,
                 num_rows, num_columns, max_rectangles, result, unmatched,
                 shades, out, total_line, caller, ties, runs, returned,
                 covers, steps>>

\* local_search(), one call: it returns (to label(), through the calls that
\* wait for it) or applies the best Shade and calls itself
LocalSearch ==
  /\ pc = "local"
  /\ IF Len(result) < 2
     THEN /\ pc' = "label"
          /\ UNCHANGED <<result, shades, steps>>
     ELSE \E sorted \in {SortedShades} :
            /\ shades' = sorted
            /\ IF sorted # <<>> /\ ShouldApply(sorted[1])
               THEN \E after \in {ApplyShade(result, sorted[1])} :
                      /\ result' = after
                      /\ steps' = Append(steps, [shade |-> sorted[1],
                                                 before |-> result,
                                                 after |-> after,
                                                 K |-> max_rectangles])
                      /\ pc' = "local"
               ELSE /\ pc' = "label"
                    /\ UNCHANGED <<result, steps>>
  /\ UNCHANGED <<probe, input, pos, row_index, total_cost, field, strawberries,
                 num_rows, num_columns, max_rectangles, rectangles, covering,
                 unmatched, out, total_line, caller, ties, runs, returned,
                 covers>>

\* compute_convex_hull(): the bits of the strawberries
HullBits == {num_columns * b[1] + b[2] : b \in strawberries}

\* run(), K <= 1: compute_convex_hull() of a field with a strawberry
ComputeConvexHull ==
  /\ pc = "run"
  /\ ~(max_rectangles > 1)
  /\ strawberries # {}
  /\ LET rows == {(p - (p % num_columns)) \div num_columns : p \in HullBits}
         columns == {p % num_columns : p \in HullBits}
     IN  result' = Append(result,
                          MakeSpan(Rectangle(Min(rows), Min(columns), Max(rows), Max(columns))))
  /\ pc' = "label"
  /\ UNCHANGED <<probe, input, pos, row_index, total_cost, field, strawberries,
                 num_rows, num_columns, max_rectangles, rectangles, covering,
                 unmatched, shades, out, total_line, caller, ties, runs,
                 returned, covers, steps>>

\* run(), K <= 1: compute_convex_hull() of a field without strawberries reads
\* *rows.begin() and *rows.rbegin() of empty sets, which is undefined: the
\* program ends, or goes on with a rectangle of whatever bounds were read
\* (bounds outside the grid make the Rectangle constructor read outside the
\* field; of the executions that go on the model keeps those with bounds
\* inside the grid)
ComputeConvexHullEmpty ==
  /\ pc = "run"
  /\ ~(max_rectangles > 1)
  /\ strawberries = {}
  /\ \/ /\ pc' = "crashed"
        /\ UNCHANGED result
     \/ /\ \E x0 \in 0..(num_rows - 1), y0 \in 0..(num_columns - 1) :
           \E x1 \in x0..(num_rows - 1), y1 \in y0..(num_columns - 1) :
             result' = Append(result, MakeSpan(Rectangle(x0, y0, x1, y1)))
        /\ pc' = "label"
  /\ UNCHANGED <<probe, input, pos, row_index, total_cost, field, strawberries,
                 num_rows, num_columns, max_rectangles, rectangles, covering,
                 unmatched, shades, out, total_line, caller, ties, runs,
                 returned, covers, steps>>

\* run(): label()
Label ==
  /\ pc = "label"
  /\ result' = Labelled(result)
  /\ pc' = "output"
  /\ UNCHANGED <<probe, input, pos, row_index, total_cost, field, strawberries,
                 num_rows, num_columns, max_rectangles, rectangles, covering,
                 unmatched, shades, out, total_line, caller, ties, runs,
                 returned, covers, steps>>

\* run(): output()
Output ==
  /\ pc = "output"
  /\ out' = Append(out, OutputBlock)
  /\ pc' = "finish"
  /\ UNCHANGED <<probe, input, pos, row_index, total_cost, field, strawberries,
                 num_rows, num_columns, max_rectangles, rectangles, result,
                 covering, unmatched, shades, total_line, caller, ties, runs,
                 returned, covers, steps>>

\* run(): the sum of the costs and the return, with a reset() that lacks
\* result_.clear()
RunReturnKeepResult ==
  /\ pc = "finish"
  /\ returned' = Append(returned, CoverCost(result))
  /\ covers' = Append(covers, result)
  /\ max_rectangles' = 0
  /\ shades' = <<>>
  /\ steps' = <<>>
  /\ pc' = "returned"
  /\ UNCHANGED <<probe, input, pos, row_index, total_cost, field, strawberries,
                 num_rows, num_columns, rectangles, result, covering, unmatched,
                 out, total_line, caller, ties, runs>>

\* run(): the sum of the costs, reset(), return
RunReturn ==
  /\ pc = "finish"
  /\ returned' = Append(returned, CoverCost(result))
  /\ covers' = Append(covers, result)
  /\ result' = <<>>
  /\ max_rectangles' = 0
  /\ shades' = <<>>
  /\ steps' = <<>>
  /\ pc' = "returned"
  /\ UNCHANGED <<probe, input, pos, row_index, total_cost, field, strawberries,
                 num_rows, num_columns, rectangles, covering, unmatched, out,
                 total_line, caller, ties, runs>>

\* process_strawberry_field after optimizer.run(), and back in main
ProcessReturn ==
  /\ pc = "returned"
  /\ total_cost' = total_cost + returned[Len(returned)]
  /\ field' = <<>>
  /\ strawberries' = {}
  /\ num_rows' = 0
  /\ num_columns' = 0
  /\ row_index' = IF caller = "loop" THEN -1 ELSE row_index
  /\ caller' = "none"
  /\ pc' = "read"
  /\ UNCHANGED <<probe, input, pos, max_rectangles, rectangles, result, covering,
                 unmatched, shades, out, total_line, ties, runs, returned,
                 covers, steps>>

Next ==
  \/ ReadEmptyLine
  \/ ReadKLine
  \/ ReadFieldLine
  \/ AtEndOfFile
  \/ GenerateRectangles
  \/ GreedyMatchBegin
  \/ GreedyMatchStep
  \/ GreedyMatchEnd
  \/ LocalSearch
  \/ ComputeConvexHull
  \/ ComputeConvexHullEmpty
  \/ Label
  \/ Output
  \/ RunReturn
  \/ ProcessReturn

Spec == Init /\ [][Next]_vars

\* ------------------------------------------------- covers of many members
\* A cover of more than 52 members takes a field of several hundred cells:
\* n groups of strawberries in one column, a pair in rows 0 and 1 and single
\* strawberries every 13 rows below, and K = n.  No join of two groups pays
\* off (a hull of 14 cells costs 24, two singles 22), so greedy_match leaves
\* the pair and the singles, and local_search leaves them as they are.
WideMembers == {52, 53, 54}

WideBerries(n) == {<<0, 0>>, <<1, 0>>} \cup {<<1 + 13 * k, 0>> : k \in 1..(n - 1)}

WideLines(n) == FieldOf(13 * n - 11, 1, WideBerries(n))

\* the cover greedy_match leaves on WideLines(n): the pair (ratio 2/12), then
\* the singles (ratio 1/11) from the back of the sorted candidates
WideCover(n, tie) ==
  LET single(k) == [RectangleW(1 + 13 * k, 0, 1 + 13 * k, 0, 1)
                      EXCEPT !.span = {1 + 13 * k}, !.spun = TRUE]
      pair == [RectangleW(0, 0, 1, 0, 2) EXCEPT !.span = {0, 1}, !.spun = TRUE]
  IN  <<pair>> \o [i \in 1..(n - 1) |->
                     IF tie = "stable" THEN single(n - i) ELSE single(i)]

\* run() on WideLines(n) with K = n, at the call of label()
InitWide ==
  \E n \in WideMembers :
    /\ input = PuzzleLines(n, WideLines(n))
    /\ ties \in {"stable", "reversed"}
    /\ pos = Len(input) + 1
    /\ row_index = 13 * n - 12
    /\ total_cost = 0
    /\ field = [i \in 1..(13 * n - 11) |-> RowOf(WideLines(n)[i])]
    /\ strawberries = WideBerries(n)
    /\ num_rows = 13 * n - 11
    /\ num_columns = 1
    /\ max_rectangles = n
    /\ rectangles = <<>>
    /\ result = WideCover(n, ties)
    /\ covering = {}
    /\ unmatched = {}
    /\ shades = <<>>
    /\ out = <<>>
    /\ total_line = -1
    /\ pc = "label"
    /\ caller = "final"
    /\ runs = <<[K |-> n, field |-> field]>>
    /\ returned = <<>>
    /\ covers = <<>>
    /\ steps = <<>>
    /\ probe = NoProbe

SpecLabel == (Init \/ InitWide) /\ [][Next]_vars

\* main is one thread that executes every call it makes: a call of
\* local_search that can run does run.  This is WF_vars(LocalSearch) with
\* ENABLED <<LocalSearch>>_vars written as pc = "local": at pc = "local" the
\* action has a step, and each of its steps changes pc or steps.
LocalSearchIsFair == []<>(pc # "local") \/ []<><<LocalSearch>>_vars

SpecFair == Spec /\ LocalSearchIsFair

\* The same for the loop of greedy_match: at pc = "match" one of
\* GreedyMatchStep and GreedyMatchEnd has a step, and each step changes pc or
\* result.
GreedyMatchIsFair ==
  []<>(pc # "match") \/ []<><<GreedyMatchStep \/ GreedyMatchEnd>>_vars

SpecMatchFair == Spec /\ GreedyMatchIsFair

\* ------------------------------------------- functions applied on their own
\* Rectangle::make_span and determine_intersection_type applied to every pair
\* of rectangles (r3, join) of a grid of at most ProbeRows x ProbeCols cells,
\* all of them strawberries, so that the weight of a rectangle is its area.
ProbeRows == MaxRows + 1
ProbeCols == MaxCols

RectanglesOn(m, n) ==
  {Rectangle(x0, y0, x1, y1) :
     <<x0, x1>> \in {p \in (0..(m - 1)) \X (0..(m - 1)) : p[1] <= p[2]},
     <<y0, y1>> \in {p \in (0..(n - 1)) \X (0..(n - 1)) : p[1] <= p[2]}}

InitProbe ==
  /\ input = <<>>
  /\ ties = "stable"
  /\ pos = 1
  /\ row_index = -1
  /\ total_cost = 0
  /\ num_rows \in 1..ProbeRows
  /\ num_columns \in 1..ProbeCols
  /\ field = [i \in 1..num_rows |-> [j \in 1..num_columns |-> 1]]
  /\ strawberries = (0..(num_rows - 1)) \X (0..(num_columns - 1))
  /\ max_rectangles = 0
  /\ rectangles = <<>>
  /\ result = <<>>
  /\ covering = {}
  /\ unmatched = {}
  /\ shades = <<>>
  /\ out = <<>>
  /\ total_line = -1
  /\ pc = "probe"
  /\ caller = "none"
  /\ runs = <<>>
  /\ returned = <<>>
  /\ covers = <<>>
  /\ steps = <<>>
  /\ \E r3, join \in RectanglesOn(num_rows, num_columns) :
       probe = [calls |-> 0, r3 |-> r3, join |-> join, first |-> r3,
                classified |-> FALSE, slice |-> Slice(r3)]

\* r3->make_span() and join->make_span(); `first` keeps r3 as the first call
\* left it
ProbeMakeSpan ==
  /\ pc = "probe"
  /\ probe.calls < 2
  /\ probe' = [probe EXCEPT !.calls = @ + 1,
                            !.r3 = MakeSpan(@),
                            !.join = MakeSpan(@),
                            !.first = IF probe.calls = 0 THEN MakeSpan(probe.r3) ELSE @]
  /\ UNCHANGED <<input, pos, row_index, total_cost, field, strawberries,
                 num_rows, num_columns, max_rectangles, rectangles, result,
                 covering, unmatched, shades, out, total_line, pc, caller,
                 ties, runs, returned, covers, steps>>

\* determine_intersection_type(r3, join, &s) on materialised spans
ProbeClassify ==
  /\ pc = "probe"
  /\ probe.calls >= 1
  /\ ~probe.classified
  /\ probe' = [probe EXCEPT !.classified = TRUE,
                            !.slice = DetermineIntersectionType(probe.r3, probe.join)]
  /\ UNCHANGED <<input, pos, row_index, total_cost, field, strawberries,
                 num_rows, num_columns, max_rectangles, rectangles, result,
                 covering, unmatched, shades, out, total_line, pc, caller,
                 ties, runs, returned, covers, steps>>

NextProbe == ProbeMakeSpan \/ ProbeClassify

SpecProbe == InitProbe /\ [][NextProbe]_vars

\* ------------------------------------------------------------- properties
\* the cells inside the bounds of a rectangle, and the strawberries of a field
CellsOf(r) == (r.x0..r.x1) \X (r.y0..r.y1)

HasStrawberry(f) == \E i \in 1..Len(f) : \E j \in 1..Len(f[i]) : f[i][j] = 1

\* the run in progress is the last of `runs`
InRun == pc \in {"run", "greedy", "match", "local", "label", "output", "finish"}

\* C1: for a grid with at least one strawberry and K >= 1, the cover run()
\* holds when it finishes has at most K rectangles, and local search never
\* returns to label() with more than K rectangles.
C1_FinalCoverAtMostK ==
  /\ \A i \in 1..Len(covers) :
        (runs[i].K >= 1 /\ HasStrawberry(runs[i].field))
          => Len(covers[i]) <= runs[i].K
  /\ (pc \in {"label", "output", "finish"} /\ max_rectangles >= 1 /\ strawberries # {})
          => Len(result) <= max_rectangles

\* C1 witness: a run with K = 2 finished with exactly 2 rectangles after local
\* search applied a join of positive penalty to a cover of 3
C1_Witness ==
  /\ pc = "returned"
  /\ runs[Len(runs)].K = 2
  /\ Len(covers[Len(covers)]) = 2
  /\ HasStrawberry(runs[Len(runs)].field)
  /\ Len(runs[Len(runs)].field) = 25

\* C2: after greedy_match returns and after every applied local-search step
\* any two distinct members of the cover share no cell (by their bounds and by
\* their materialized spans), so the assertion of join_rectangles holds for
\* every pair local search enumerates.
C2_Disjoint ==
  pc \in {"local", "label", "output", "finish"} =>
    \A i, j \in 1..Len(result) :
      i # j => /\ result[i].spun /\ result[j].spun
               /\ ~Intersects(result[i], result[j])
               /\ CellsOf(result[i]) \cap CellsOf(result[j]) = {}

\* C2 witness: local search is about to enumerate the pairs of a cover of
\* several members, after it applied a step to the cover greedy_match left
C2_Witness ==
  /\ pc = "local"
  /\ Len(result) >= 2
  /\ Len(steps) >= 1

\* C3: when greedy_match returns, after every applied local-search step and
\* at termination, every strawberry of the grid lies inside a member of the
\* cover.
C3_Coverage ==
  pc \in {"local", "label", "output", "finish"} =>
    \A b \in strawberries :
      \E i \in 1..Len(result) :
        /\ b \in CellsOf(result[i])
        /\ num_columns * b[1] + b[2] \in result[i].span

\* C3 witness: a cover of at least two members after a step that cut a member
\* down to its residual
C3_Witness ==
  /\ pc = "local"
  /\ Len(steps) >= 1
  /\ Len(steps[Len(steps)].shade.penumbra) >= 1
  /\ Cardinality(strawberries) >= 3

\* the cost of a cover, from the bounds of its members
RECURSIVE CostFromBounds(_, _)
CostFromBounds(cover, n) ==
  IF n = 0 THEN 0
  ELSE 10 + Cardinality(CellsOf(cover[n])) + CostFromBounds(cover, n - 1)

\* C4: for every puzzle the Cost written by output() and the integer returned
\* by run() both equal the sum of 10 + area over the members of the final
\* cover, and the Cardinality written is the number of members.
C4_CostEquality ==
  /\ Len(returned) = Len(covers)
  /\ Len(out) = Len(covers) + (IF pc = "finish" THEN 1 ELSE 0)
  /\ \A i \in 1..Len(covers) :
        /\ returned[i] = CostFromBounds(covers[i], Len(covers[i]))
        /\ out[i].cost = CostFromBounds(covers[i], Len(covers[i]))
        /\ out[i].cardinality = Len(covers[i])
  /\ pc = "finish" =>
        /\ out[Len(out)].cost = CostFromBounds(result, Len(result))
        /\ out[Len(out)].cardinality = Len(result)

\* C4 witness: a puzzle was solved with a cover of a 2-cell and a 1-cell member
C4_Witness ==
  /\ pc = "returned"
  /\ Len(covers[1]) = 2
  /\ out[1].cardinality = 2
  /\ out[1].cost = 23
  /\ returned[1] = 23

\* C5: whenever run() is invoked with K <= 1, phases 1-3 are skipped and the
\* cover consists of exactly one rectangle whose bounds are the least and
\* greatest row and column of the strawberries.
C5_FastPath ==
  /\ pc \in {"greedy", "match", "local"} => max_rectangles > 1
  /\ (InRun /\ pc # "run" /\ max_rectangles <= 1) =>
        /\ Len(result) = 1
        /\ \E top \in strawberries, left \in strawberries,
              bottom \in strawberries, right \in strawberries :
              /\ \A b \in strawberries : /\ top[1] <= b[1] /\ b[1] <= bottom[1]
                                         /\ left[2] <= b[2] /\ b[2] <= right[2]
              /\ result[1].x0 = top[1] /\ result[1].y0 = left[2]
              /\ result[1].x1 = bottom[1] /\ result[1].y1 = right[2]
  /\ (pc = "crashed" /\ runs[Len(runs)].K <= 1) => Len(result) = 1

\* C5 on the fields that hold a strawberry: there the fast path builds the
\* bounding box of the strawberries
C5_FastPathWithStrawberry ==
  (InRun /\ pc # "run" /\ max_rectangles <= 1 /\ strawberries # {}) =>
    /\ Len(result) = 1
    /\ \A b \in strawberries : b \in CellsOf(result[1])
    /\ \E b \in strawberries : b[1] = result[1].x0
    /\ \E b \in strawberries : b[2] = result[1].y0
    /\ \E b \in strawberries : b[1] = result[1].x1
    /\ \E b \in strawberries : b[2] = result[1].y1

\* C6: when local search terminates with at least two members (more than K,
\* or at most K), every pair of members whose Shade has no Increasing slice
\* has a penalty above 0.
C6_LocalOptimum ==
  (pc = "label" /\ Len(result) >= 2) =>
    \A i, j \in 1..Len(result) :
      (i < j /\ ShadeOfPair(i, j).retained) => Penalty(ShadeOfPair(i, j).shade) > 0

\* C6 witness: local search stopped on a cover of two members whose join has
\* no Increasing slice, after it applied a step
C6_Witness ==
  /\ pc = "label"
  /\ Len(result) = 2
  /\ Len(result) <= max_rectangles
  /\ Len(steps) >= 1
  /\ ShadeOfPair(1, 2).retained

\* C7: every Shade retained in an iteration of local search was built from
\* slices none of which is Increasing (its envelope and penumbra hold one
\* member per slice), and every applied Shade had a penalty of at most 0 or
\* was applied to a cover of more than K members.
C7_ShadeValidity ==
  /\ \A k \in 1..Len(shades) :
        /\ \A n \in 1..Len(shades[k].kinds) : shades[k].kinds[n] # kIncreasing
        /\ Len(shades[k].envelope) + Len(shades[k].penumbra) = Len(shades[k].kinds)
  /\ \A n \in 1..Len(steps) :
        Penalty(steps[n].shade) <= 0 \/ Len(steps[n].before) > steps[n].K

\* C7 witness: a Shade of positive penalty was applied to a cover of more than
\* K members, and a retained Shade of that iteration has a slice
C7_Witness ==
  /\ Len(steps) = 1
  /\ Penalty(steps[1].shade) > 0
  /\ Len(steps[1].before) > steps[1].K
  /\ \E k \in 1..Len(shades) : shades[k].kinds # <<>>

\* C8: in the output of generate_rectangles two candidates with the same top
\* row, left column and right column and different bottom rows have weights
\* that grow strictly with the bottom row, and the stored weight of every
\* candidate is the number of strawberries inside its bounds.
C8_ChainWeights ==
  pc = "greedy" =>
    /\ \A i, j \in 1..Len(rectangles) :
          ( /\ rectangles[i].x0 = rectangles[j].x0
            /\ rectangles[i].y0 = rectangles[j].y0
            /\ rectangles[i].y1 = rectangles[j].y1
            /\ rectangles[i].x1 < rectangles[j].x1 )
            => rectangles[i].weight < rectangles[j].weight
    /\ \A i \in 1..Len(rectangles) :
          rectangles[i].weight = Cardinality(strawberries \cap CellsOf(rectangles[i]))

\* C8 witness: the candidates hold two members of one chain, and a rectangle
\* between them was pruned
C8_Witness ==
  /\ pc = "greedy"
  /\ \E i, j \in 1..Len(rectangles) :
        /\ rectangles[i].x0 = rectangles[j].x0
        /\ rectangles[i].y0 = rectangles[j].y0
        /\ rectangles[i].y1 = rectangles[j].y1
        /\ rectangles[i].x1 + 1 < rectangles[j].x1
        /\ rectangles[i].weight = 1
        /\ rectangles[j].weight = 2

\* C9: label() orders the cover by non-increasing weight-to-cost ratio and
\* gives the i-th member (from 0) the i-th character of A..Z a..z when
\* i < 52 and '0' otherwise: the first 52 labels are pairwise distinct, and a
\* member with an earlier label never has a smaller ratio than a later one.
C9_Labels ==
  pc \in {"output", "finish"} =>
    /\ Len(Alphabet) = 52
    /\ \A i \in 1..Len(result) :
          result[i].label = IF i <= 52 THEN Alphabet[i] ELSE "0"
    /\ \A i, j \in 1..Len(result) :
          i < j =>
            /\ (j <= 52 => result[i].label # result[j].label)
            /\ result[i].weight * (10 + Cardinality(CellsOf(result[j])))
                 >= result[j].weight * (10 + Cardinality(CellsOf(result[i])))

\* C9 witness: a cover of 54 members of two different ratios was labelled; the
\* member of the greatest ratio is A, the 52nd is z, the last two are 0
C9_Witness ==
  /\ pc = "output"
  /\ Len(result) = 54
  /\ result[1].label = "A" /\ result[1].weight = 2
  /\ result[52].label = "z" /\ result[52].weight = 1
  /\ result[53].label = "0"
  /\ result[54].label = "0"

\* the puzzles of the input file, read off its lines: a puzzle is a maximal
\* block of non-empty lines, its first line the K line, the others the rows
PuzzleStarts ==
  {i \in 1..Len(input) : input[i] # <<>> /\ (i = 1 \/ input[i - 1] = <<>>)}

PuzzleEnd(i) == Max({j \in i..Len(input) : \A k \in i..j : input[k] # <<>>})

PuzzleAt(i) ==
  [K |-> CHOOSE k \in 0..99 : ToDigits(k) = input[i],
   field |-> [r \in 1..(PuzzleEnd(i) - i) |->
                [c \in 1..Len(input[i + r]) |-> IF input[i + r][c] = "@" THEN 1 ELSE 0]]]

ExpectedPuzzles ==
  [n \in 1..Cardinality(PuzzleStarts) |->
     PuzzleAt(CHOOSE i \in PuzzleStarts : Cardinality({j \in PuzzleStarts : j < i}) = n - 1)]

RECURSIVE SumFirst(_, _)
SumFirst(s, n) == IF n = 0 THEN 0 ELSE s[n] + SumFirst(s, n - 1)

\* the runs so far are the first puzzles of the file, each once, in order, with
\* its own K and all its rows, and the output blocks are theirs, in order
RunsFollowInput ==
  /\ Len(runs) <= Len(ExpectedPuzzles)
  /\ \A i \in 1..Len(runs) : runs[i] = ExpectedPuzzles[i]
  /\ \A i \in 1..Len(covers) :
        /\ Len(out[i].grid) = Len(runs[i].field)
        /\ out[i].rule = Len(runs[i].field[1])
        /\ out[i].cost = returned[i]

\* C10: for any input every puzzle, ended by an empty line or by the end of
\* the file, is solved exactly once with its own K and all its rows, empty
\* lines cause no further run, the output blocks come in input order, and the
\* "Total Cost:" line holds the sum of the costs of the puzzles.
C10_Driver ==
  /\ RunsFollowInput
  /\ pc \in {"done", "crashed"} =>
        /\ Len(covers) = Len(ExpectedPuzzles)
        /\ Len(out) = Len(ExpectedPuzzles)
        /\ total_line = SumFirst(returned, Len(returned))

\* C10 for the executions that reach the end of main
C10_DriverOnCompletion ==
  /\ RunsFollowInput
  /\ pc = "done" =>
        /\ Len(covers) = Len(ExpectedPuzzles)
        /\ Len(out) = Len(ExpectedPuzzles)
        /\ total_line = SumFirst(returned, Len(returned))
  /\ total_line # -1 => pc = "done"

\* two puzzles, the second ended by the end of the file, were solved and the
\* total line written
C10_CompletionWitness ==
  /\ pc = "done"
  /\ Len(runs) = 2
  /\ input[Len(input)] # <<>>
  /\ \E i \in 2..(Len(input) - 1) : input[i] = <<>> /\ input[i + 1] = <<>>
  /\ total_line = returned[1] + returned[2]

\* the cover the i-th block was written from: result_ until run() returns
CoverOfBlock(i) == IF i <= Len(covers) THEN covers[i] ELSE result

\* C11: in the field block written for a puzzle a cell shows the label of the
\* cover rectangle whose bounds contain it and '.' if no cover rectangle
\* contains it; every strawberry cell shows a label, and no cell lies in two
\* cover rectangles.
C11_OutputGrid ==
  \A i \in 1..Len(out) :
    /\ Len(out[i].grid) = Len(runs[i].field)
    /\ \A row \in 1..Len(out[i].grid) :
         /\ Len(out[i].grid[row]) = Len(runs[i].field[row])
         /\ \A col \in 1..Len(out[i].grid[row]) :
              LET cover  == CoverOfBlock(i)
                  owners == {k \in 1..Len(cover) :
                               <<row - 1, col - 1>> \in CellsOf(cover[k])}
                  shown  == out[i].grid[row][col]
              IN  /\ Cardinality(owners) <= 1
                  /\ owners = {} => shown = "."
                  /\ \A k \in owners : shown = cover[k].label /\ shown # "."
                  /\ runs[i].field[row][col] = 1 => shown # "."

\* a field block of several rows with cells of two rectangles and an
\* uncovered cell
C11_Witness ==
  /\ out # <<>>
  /\ Len(out[1].grid) >= 2
  /\ Len(covers) >= 1 /\ Len(covers[1]) = 2
  /\ \A shown \in {"A", "B", "."} :
        \E row \in 1..Len(out[1].grid) : \E col \in 1..Len(out[1].grid[row]) :
          out[1].grid[row][col] = shown

\* C12: after make_span() bit r * num_columns + c of the span is set iff
\* top_row <= r <= bottom_row and top_col <= c <= bottom_col, and a second
\* call of make_span() leaves the rectangle, its span included, unchanged.
C12_MakeSpan ==
  /\ probe.calls >= 1 =>
        \A r \in 0..(num_rows - 1), c \in 0..(num_columns - 1) :
          (r * num_columns + c \in probe.r3.span)
            <=> (probe.r3.x0 <= r /\ r <= probe.r3.x1 /\
                 probe.r3.y0 <= c /\ c <= probe.r3.y1)
  /\ probe.calls >= 1 => probe.r3.span \subseteq 0..(num_rows * num_columns - 1)
  /\ probe.calls = 2 => probe.r3 = probe.first

\* make_span() was called twice on a rectangle of several rows and columns
\* that is not the whole grid
C12_Witness ==
  /\ probe.calls = 2
  /\ probe.r3.x0 < probe.r3.x1 /\ probe.r3.y0 < probe.r3.y1
  /\ Cardinality(probe.r3.span) = Area(probe.r3)
  /\ Area(probe.r3) < num_rows * num_columns

\* C13: with K = 2 the field '@...@' gives cardinality 1, cost 15 and a single
\* rectangle labelled 'A' over all 5 cells; for any field of one row with two
\* strawberries whose hull costs less than 22 the final cover is that hull.
C13_ScenarioC ==
  \A i \in 1..Len(covers) :
    LET f       == runs[i].field
        berries == {c \in 1..Len(f[1]) : f[1][c] = 1}
        left    == Min(berries)
        right   == Max(berries)
    IN  /\ (Len(f) = 1 /\ Cardinality(berries) = 2 /\ 10 + (right - left + 1) < 22)
             => /\ Len(covers[i]) = 1
                /\ CellsOf(covers[i][1]) = {0} \X ((left - 1)..(right - 1))
                /\ covers[i][1].label = "A"
                /\ returned[i] = 10 + (right - left + 1)
                /\ out[i].cardinality = 1
                /\ out[i].cost = 10 + (right - left + 1)
        /\ (runs[i].K = 2 /\ f = <<<<1, 0, 0, 0, 1>>>>)
             => out[i] = [cardinality |-> 1, cost |-> 15, rule |-> 5,
                          grid |-> <<<<"A", "A", "A", "A", "A">>>>]

\* the run of scenario C has returned its cost
C13_Witness ==
  /\ Len(covers) = 1 /\ Len(returned) = 1
  /\ runs[1] = [K |-> 2, field |-> <<<<1, 0, 0, 0, 1>>>>]
  /\ out[1].grid = <<<<"A", "A", "A", "A", "A">>>>
  /\ returned[1] = 15

\* every Shade applied so far lowered the cost or the cardinality of the
\* cover, the calls of local_search so far are at most as many as the greedy
\* cover has members, and local_search has returned only on a cover of less
\* than 2 members, without a retained Shade, or with a best Shade of positive
\* penalty on a cover of at most K members
LocalSearchVariant ==
  /\ \A n \in 1..Len(steps) :
        \/ Len(steps[n].after) < Len(steps[n].before)
        \/ CostFromBounds(steps[n].after, Len(steps[n].after))
             < CostFromBounds(steps[n].before, Len(steps[n].before))
  /\ steps # <<>> => Len(steps) + 1 <= Len(steps[1].before)
  /\ (pc = "label" /\ max_rectangles > 1) =>
        \/ Len(result) < 2
        \/ shades = <<>>
        \/ Penalty(shades[1]) > 0 /\ Len(result) <= max_rectangles

\* C14: local search terminates on every input: every applied Shade strictly
\* decreases the total cost or the cardinality of the cover, the depth of the
\* recursion is bounded by the size of the greedy cover, and every call of
\* local_search leads to its return in a call where |cover| < 2, no Shade is
\* retained, or the best Shade has penalty > 0 with |cover| <= K.
C14_LocalSearchTerminates ==
  /\ []LocalSearchVariant
  /\ (pc = "local") ~> (pc = "label")

\* local_search has returned after two applications, the first on a cover of
\* more than K members
C14_Witness ==
  /\ pc = "label"
  /\ Len(steps) = 2
  /\ Len(steps[1].before) > max_rectangles

\* the number of places of a cover that hold r
PlacesOf(cover, r) == Cardinality({i \in 1..Len(cover) : cover[i] = r})

\* C15: each applied local-search step changes the cover size by exactly
\* -(1 + |envelope|): r1, r2 and every envelope member are removed, one join
\* is added, and each penumbra original is replaced one-for-one; the cover
\* size never grows and never stays equal across an applied step.
C15_StepSize ==
  \A n \in 1..Len(steps) :
    LET shade  == steps[n].shade
        before == steps[n].before
        after  == steps[n].after
    IN  /\ Len(after) = Len(before) - (1 + Len(shade.envelope))
        /\ Len(after) < Len(before)
        /\ PlacesOf(before, shade.rec1) = 1 /\ PlacesOf(after, shade.rec1) = 0
        /\ PlacesOf(before, shade.rec2) = 1 /\ PlacesOf(after, shade.rec2) = 0
        /\ PlacesOf(before, shade.join) = 0 /\ PlacesOf(after, shade.join) = 1
        /\ \A k \in 1..Len(shade.envelope) :
              /\ PlacesOf(before, shade.envelope[k]) = 1
              /\ PlacesOf(after, shade.envelope[k]) = 0
        /\ \A k \in 1..Len(shade.penumbra) :
              /\ PlacesOf(before, shade.penumbra[k].original) = 1
              /\ PlacesOf(after, shade.penumbra[k].original) = 0
              /\ PlacesOf(before, shade.penumbra[k].slice) = 0
              /\ PlacesOf(after, shade.penumbra[k].slice) = 1

\* a Shade with an envelope was applied
C15_Witness ==
  /\ steps # <<>>
  /\ steps[Len(steps)].shade.envelope # <<>>
  /\ Len(steps[Len(steps)].after) <= Len(steps[Len(steps)].before) - 2

\* C16: for every applied Shade the sum of 10 + area over the cover after the
\* step minus that sum over the cover before the step equals penalty(), and
\* penalty() is cost(join) - (cost(r1) + cost(r2) + the envelope costs + the
\* sum over the penumbra of area(original) - area(residual)).
C16_PenaltyIsCostDelta ==
  \A n \in 1..Len(steps) :
    LET shade  == steps[n].shade
        before == steps[n].before
        after  == steps[n].after
        cells(r) == Cardinality(CellsOf(r))
        envelope == SumFirst([k \in 1..Len(shade.envelope) |->
                                10 + cells(shade.envelope[k])], Len(shade.envelope))
        penumbra == SumFirst([k \in 1..Len(shade.penumbra) |->
                                cells(shade.penumbra[k].original)
                                  - cells(shade.penumbra[k].slice)],
                             Len(shade.penumbra))
    IN  /\ CostFromBounds(after, Len(after)) - CostFromBounds(before, Len(before))
             = Penalty(shade)
        /\ Penalty(shade) = (10 + cells(shade.join))
                              - ((10 + cells(shade.rec1)) + (10 + cells(shade.rec2))
                                 + envelope + penumbra)

\* a Shade with a penumbra member that lost cells was applied
C16_Witness ==
  /\ steps # <<>>
  /\ \E k \in 1..Len(steps[Len(steps)].shade.penumbra) :
        Area(steps[Len(steps)].shade.penumbra[k].slice)
          < Area(steps[Len(steps)].shade.penumbra[k].original)

\* a non-empty set of cells that fills the rectangle between its extremes
SolidRectangle(cells) ==
  /\ cells # {}
  /\ cells = (Min({c[1] : c \in cells})..Max({c[1] : c \in cells}))
               \X (Min({c[2] : c \in cells})..Max({c[2] : c \in cells}))

\* the classification of the rectangle under test: the kinds Void and
\* Decreasing, the bounds of a NonIncreasing slice, and Increasing for what
\* is left, as the claim states them
ClassifiedAsStated(nonIncreasingIf) ==
  probe.calls >= 1 /\ probe.classified =>
    LET r3   == CellsOf(probe.r3)
        hull == CellsOf(probe.join)
        kind == probe.slice.intersection
        s    == probe.slice
    IN  /\ probe.slice.original = probe.r3
        /\ kind = kVoid <=> r3 \cap hull = {}
        /\ kind = kDecreasing <=> (r3 \cap hull # {} /\ r3 \subseteq hull)
        /\ kind = kNonIncreasing <=> nonIncreasingIf
        /\ kind = kIncreasing <=> ~(\/ r3 \cap hull = {}
                                    \/ r3 \cap hull # {} /\ r3 \subseteq hull
                                    \/ nonIncreasingIf)
        /\ kind = kNonIncreasing =>
              LET residual == (s.top_left_row..s.bottom_right_row)
                                \X (s.top_left_column..s.bottom_right_column)
              IN  /\ residual = r3 \ hull
                  /\ residual \cap hull = {}
                  /\ residual \cup (r3 \cap hull) = r3

\* C17 as stated: NonIncreasing iff the cell set R3 minus H is a non-empty
\* solid axis-aligned rectangle.
C17_ClassifierAsStated ==
  ClassifiedAsStated(SolidRectangle(CellsOf(probe.r3) \ CellsOf(probe.join)))

\* C17: for every rectangular R3 and hull H on the grid
\* determine_intersection_type returns Void iff R3 and H share no cell,
\* Decreasing iff they share a cell and R3 is contained in H, NonIncreasing
\* iff they share a cell and the cell set R3 minus H is a non-empty solid
\* axis-aligned rectangle, and Increasing otherwise; the bounds of a
\* NonIncreasing slice describe exactly the cell set R3 minus H.
C17_Classifier ==
  ClassifiedAsStated(/\ CellsOf(probe.r3) \cap CellsOf(probe.join) # {}
                     /\ SolidRectangle(CellsOf(probe.r3) \ CellsOf(probe.join)))

\* a NonIncreasing slice of several cells was cut from a rectangle that
\* shares several cells with the hull
C17_Witness ==
  /\ probe.calls >= 1 /\ probe.classified
  /\ probe.slice.intersection = kNonIncreasing
  /\ Cardinality(CellsOf(probe.r3) \ CellsOf(probe.join)) >= 2
  /\ Cardinality(CellsOf(probe.r3) \cap CellsOf(probe.join)) >= 2
  /\ ~(CellsOf(probe.join) \subseteq CellsOf(probe.r3))

\* The join of the members i and j of a cover, from the cells of the members:
\* whether it is retained (no other member is cut into a shape that is not a
\* rectangle), its penalty and the size of its envelope.
JoinOfCells(cover, i, j) ==
  LET both     == CellsOf(cover[i]) \cup CellsOf(cover[j])
      hull     == (Min({c[1] : c \in both})..Max({c[1] : c \in both}))
                    \X (Min({c[2] : c \in both})..Max({c[2] : c \in both}))
      others   == (1..Len(cover)) \ {i, j}
      met      == {k \in others : CellsOf(cover[k]) \cap hull # {}}
      inside   == {k \in met : CellsOf(cover[k]) \subseteq hull}
      cut      == met \ inside
      lost(k)  == Cardinality(CellsOf(cover[k]) \cap hull)
      costs    == [k \in 1..Len(cover) |->
                     IF k \in inside THEN 10 + Cardinality(CellsOf(cover[k]))
                     ELSE IF k \in cut THEN lost(k) ELSE 0]
  IN  [retained |-> \A k \in cut : SolidRectangle(CellsOf(cover[k]) \ hull),
       penalty  |-> (10 + Cardinality(hull))
                      - (10 + Cardinality(CellsOf(cover[i]))
                         + 10 + Cardinality(CellsOf(cover[j]))
                         + SumFirst(costs, Len(cover))),
       envelope |-> Cardinality(inside)]

\* no retained join of two members of the cover has a smaller penalty than
\* best, or the same penalty and a smaller envelope
BestOf(cover, best) ==
  \A i, j \in 1..Len(cover) :
    (i < j /\ JoinOfCells(cover, i, j).retained) =>
      LET other == JoinOfCells(cover, i, j)
      IN  ~ \/ other.penalty < Penalty(best)
            \/ other.penalty = Penalty(best) /\ other.envelope < Len(best.envelope)

\* C18: the Shade that local search considers for application has the minimum
\* penalty among all Shades retained in that iteration and, among the retained
\* Shades with that penalty, the minimum envelope size.
C18_BestShade ==
  /\ shades # <<>> =>
        \A k \in 1..Len(shades) :
          ~ \/ Penalty(shades[k]) < Penalty(shades[1])
            \/ /\ Penalty(shades[k]) = Penalty(shades[1])
               /\ Len(shades[k].envelope) < Len(shades[1].envelope)
  /\ (pc = "local" /\ steps # <<>>) => steps[Len(steps)].shade = shades[1]
  /\ \A n \in 1..Len(steps) : BestOf(steps[n].before, steps[n].shade)
  /\ (pc = "label" /\ Len(result) >= 2 /\ max_rectangles > 1) =>
        IF shades = <<>>
        THEN \A i, j \in 1..Len(result) : i < j => ~JoinOfCells(result, i, j).retained
        ELSE BestOf(result, shades[1])

\* the Shade applied was first among retained Shades of several penalties, and
\* one of the same penalty has a larger envelope
C18_Witness ==
  /\ pc = "local" /\ steps # <<>>
  /\ \E k \in 1..Len(shades) : Penalty(shades[k]) > Penalty(shades[1])
  /\ \E k \in 1..Len(shades) :
        /\ Penalty(shades[k]) = Penalty(shades[1])
        /\ Len(shades[k].envelope) > Len(shades[1].envelope)

\* the members of `before` other than rec1, rec2 and the envelope, in their
\* order, each penumbra original replaced by its residual, then the join
FrameOf(before, shade) ==
  LET Stays(r) == /\ r # shade.rec1
                  /\ r # shade.rec2
                  /\ \A k \in 1..Len(shade.envelope) : r # shade.envelope[k]
      kept == SelectSeq(before, Stays)
      Residual(r) ==
        IF \E k \in 1..Len(shade.penumbra) : shade.penumbra[k].original = r
        THEN shade.penumbra[CHOOSE k \in 1..Len(shade.penumbra) :
                              shade.penumbra[k].original = r].slice
        ELSE r
  IN  [i \in 1..Len(kept) |-> Residual(kept[i])] \o <<shade.join>>

\* C19: applying a Shade removes exactly r1, r2 and the envelope members,
\* appends the join, and substitutes each penumbra original by its residual at
\* the same position; every other cover member (those that share no cell with
\* the join) stays in the cover with unchanged bounds and unchanged relative
\* order.
C19_Frame ==
  \A n \in 1..Len(steps) :
    LET shade  == steps[n].shade
        before == steps[n].before
        after  == steps[n].after
        hull   == CellsOf(shade.join)
        touched == {shade.rec1, shade.rec2}
                     \cup {shade.envelope[k] : k \in 1..Len(shade.envelope)}
                     \cup {shade.penumbra[k].original : k \in 1..Len(shade.penumbra)}
    IN  /\ after = FrameOf(before, shade)
        /\ after[Len(after)] = shade.join
        /\ \A i \in 1..Len(before) :
              (before[i] \notin touched) <=> (CellsOf(before[i]) \cap hull = {})
        /\ \A i, j \in 1..Len(before) :
              (i < j /\ before[i] \notin touched /\ before[j] \notin touched) =>
                \E a, b \in 1..Len(after) :
                  a < b /\ after[a] = before[i] /\ after[b] = before[j]

\* a Shade with a penumbra member was applied to a cover with a member that
\* shares no cell with the join
C19_Witness ==
  /\ steps # <<>>
  /\ steps[Len(steps)].shade.penumbra # <<>>
  /\ \E i \in 1..Len(steps[Len(steps)].before) :
        /\ CellsOf(steps[Len(steps)].before[i])
              \cap CellsOf(steps[Len(steps)].shade.join) = {}
        /\ \E a \in 1..Len(steps[Len(steps)].after) :
              steps[Len(steps)].after[a] = steps[Len(steps)].before[i]

\* the bits of the cells inside the bounds of a rectangle
BitsOf(r) == {num_columns * c[1] + c[2] : c \in CellsOf(r)}

\* C20: whenever find_next_rectangle is called from greedy_match (unmatched
\* strawberries remain), the candidate list is non-empty on entry and the call
\* returns a rectangle whose span does not intersect the covering mask: a
\* candidate that misses the mask is still in the list, so the loop never ends
\* because the list ran out.
C20_GreedyNeverExhausts ==
  /\ pc # "crashed" \/ strawberries = {}
  /\ (pc = "match" /\ unmatched # {}) =>
        /\ rectangles # <<>>
        /\ \E i \in 1..Len(rectangles) : BitsOf(rectangles[i]) \cap covering = {}
        /\ FindNextRectangle.r.span \cap covering = {}
        /\ FindNextRectangle.r.span = BitsOf(FindNextRectangle.r)
        /\ FindNextRectangle.r.span \cap unmatched # {}

\* find_next_rectangle is about to be called with a covering mask that the two
\* best candidates left both meet
C20_Witness ==
  /\ pc = "match"
  /\ unmatched # {}
  /\ Len(rectangles) >= 3
  /\ BitsOf(rectangles[Len(rectangles)]) \cap covering # {}
  /\ BitsOf(rectangles[Len(rectangles) - 1]) \cap covering # {}
  /\ Len(result) >= 2

\* C21: for every strawberry (i, j) of the grid the candidate list produced by
\* generate_rectangles contains the 1x1 rectangle with bounds (i, j, i, j) and
\* weight 1.
C21_Singletons ==
  pc = "greedy" =>
    \A b \in strawberries :
      \E k \in 1..Len(rectangles) :
        /\ CellsOf(rectangles[k]) = {b}
        /\ rectangles[k].x0 = b[1] /\ rectangles[k].x1 = b[1]
        /\ rectangles[k].y0 = b[2] /\ rectangles[k].y1 = b[2]
        /\ rectangles[k].weight = 1

\* generate_rectangles has returned on a field of several rows and columns
\* with at least three strawberries, two of them side by side
C21_Witness ==
  /\ pc = "greedy"
  /\ num_rows >= 2 /\ num_columns >= 2
  /\ Cardinality(strawberries) >= 3
  /\ \E b, c \in strawberries : b[1] = c[1] /\ c[2] = b[2] + 1
  /\ Len(rectangles) > Cardinality(strawberries)

\* the rectangles of the grid, as (row, col, down, right)
GridRectangles ==
  {q \in (0..(num_rows - 1)) \X (0..(num_columns - 1))
          \X (0..(num_rows - 1)) \X (0..(num_columns - 1)) :
     q[1] <= q[3] /\ q[2] <= q[4]}

\* the number of strawberries inside (row, col, down, right)
BerriesIn(q) ==
  Cardinality({b \in strawberries :
                 q[1] <= b[1] /\ b[1] <= q[3] /\ q[2] <= b[2] /\ b[2] <= q[4]})

\* a candidate with top row, left column and right column of q, the weight w
\* and a bottom row in `bottoms`
CandidateOnChain(q, w, bottoms) ==
  \E k \in 1..Len(rectangles) :
    /\ rectangles[k].x0 = q[1] /\ rectangles[k].y0 = q[2] /\ rectangles[k].y1 = q[4]
    /\ rectangles[k].x1 \in bottoms
    /\ rectangles[k].weight = w
    /\ BerriesIn(<<q[1], q[2], rectangles[k].x1, q[4]>>) = w

\* C22: for every rectangle (row, col, down, right) of the grid with weight
\* >= 1 generate_rectangles emits a candidate with the same (row, col, right),
\* a bottom row <= down and the same weight; a rectangle is dropped only if
\* it has weight 0 or such a candidate with a strictly smaller bottom row
\* exists.
C22_PruningKeepsDominators ==
  pc = "greedy" =>
    \A q \in GridRectangles :
      /\ BerriesIn(q) >= 1 => CandidateOnChain(q, BerriesIn(q), q[1]..q[3])
      /\ ~CandidateOnChain(q, BerriesIn(q), {q[3]}) =>
            \/ BerriesIn(q) = 0
            \/ CandidateOnChain(q, BerriesIn(q), q[1]..(q[3] - 1))

\* generate_rectangles has dropped a rectangle of weight 2 for a candidate
\* with a smaller bottom row, and kept a rectangle of weight 2 below a
\* candidate of weight 1
C22_Witness ==
  /\ pc = "greedy"
  /\ \E q \in GridRectangles :
        /\ BerriesIn(q) = 2
        /\ ~CandidateOnChain(q, 2, {q[3]})
        /\ CandidateOnChain(q, 2, q[1]..(q[3] - 1))
  /\ \E q \in GridRectangles :
        /\ BerriesIn(q) = 2
        /\ CandidateOnChain(q, 2, {q[3]})
        /\ CandidateOnChain(q, 1, q[1]..(q[3] - 1))

\* the weight-to-cost ratio of r is at most that of s: weight / (10 + area),
\* compared as fractions, with the area taken from the bounds
RatioAtMost(r, s) ==
  r.weight * (10 + Cardinality(CellsOf(s))) <= s.weight * (10 + Cardinality(CellsOf(r)))

\* the candidates and the accepted rectangles are in the order of their ratios
GreedyOrder ==
  /\ pc \in {"greedy", "match"} =>
        \A i, j \in 1..Len(rectangles) :
          i < j => RatioAtMost(rectangles[i], rectangles[j])
  /\ pc = "match" =>
        /\ \A i, j \in 1..Len(result) :
              i < j => RatioAtMost(result[j], result[i])
        /\ \A i \in 1..Len(result), k \in 1..Len(rectangles) :
              RatioAtMost(rectangles[k], result[i])
        /\ Len(result) = 1 =>
              /\ rectangles # <<>>
              /\ BitsOf(rectangles[Len(rectangles)]) = result[1].span
              /\ Len(rectangles) = Len(GeneratedRectangles)

\* the candidates are those generate_rectangles left, or what is left of them
\* below the back
ConsumedFromTheBack ==
  [][pc = "match" =>
       \E n \in 0..Len(rectangles) :
         \/ rectangles' = SubSeq(rectangles, 1, n)
         \/ /\ n = Len(rectangles) /\ n >= 1
            /\ rectangles' = [rectangles EXCEPT ![n] = MakeSpan(@)]]_vars

\* C23: the candidate list is sorted ascending by weight-to-cost ratio and
\* consumed only from the back, so the rectangles accepted by greedy_match, in
\* order of acceptance, have non-increasing weight-to-cost ratio, and the first
\* accepted rectangle has the maximum ratio of all candidates.
C23_GreedyOrder == []GreedyOrder /\ ConsumedFromTheBack

\* greedy_match has accepted three rectangles of three different ratios
C23_Witness ==
  /\ pc = "match"
  /\ Len(result) >= 3
  /\ ~RatioAtMost(result[1], result[2])
  /\ ~RatioAtMost(result[2], result[3])

\* the covering mask has no bit set and the candidate list is empty when
\* greedy_match is called
C24_MaskLifecycleAsStated ==
  pc = "greedy" => covering = {} /\ rectangles = <<>>

\* C24: in any sequence of puzzles, with K > 1 or K <= 1, the covering mask
\* has no bit set at the start of every greedy_match call, so the assertion
\* covering_.none() never fails; the candidate list is empty at the start of
\* every run and holds the candidates of the puzzle at hand, and no others,
\* at the start of greedy_match.  Outside greedy_match the mask has no bit
\* set, and outside generate_rectangles and greedy_match there is no
\* candidate.
C24_MaskLifecycle ==
  /\ pc = "greedy" => covering = {} /\ rectangles = GeneratedRectangles
  /\ pc = "run" => covering = {} /\ rectangles = <<>>
  /\ pc # "match" => covering = {}
  /\ pc \notin {"greedy", "match"} => rectangles = <<>>

\* greedy_match is called for the second puzzle of a file, after a first
\* puzzle with K > 1 whose greedy_match set bits of the mask
C24_Witness ==
  /\ pc = "greedy"
  /\ Len(runs) = 2
  /\ runs[1].K > 1
  /\ Len(covers) = 1
  /\ covers[1] # <<>>
  /\ strawberries # {}

\* the strawberries of a field, from its cells
BerriesOfField(f) ==
  {c \in (0..(Len(f) - 1)) \X (0..(Len(f[1]) - 1)) : f[c[1] + 1][c[2] + 1] = 1}

\* run() is entered with nothing of an earlier run: no cover, no candidate,
\* no mask bit, and K, grid, strawberries and dimensions of the puzzle at hand
RunStartsClean ==
  pc = "run" =>
    /\ result = <<>>
    /\ rectangles = <<>>
    /\ covering = {}
    /\ max_rectangles = runs[Len(runs)].K
    /\ field = runs[Len(runs)].field
    /\ strawberries = BerriesOfField(field)
    /\ num_rows = Len(field)
    /\ num_columns = Len(field[1])

\* run() and process_strawberry_field leave nothing behind
RunLeavesNothing ==
  /\ pc = "returned" =>
        result = <<>> /\ rectangles = <<>> /\ covering = {} /\ max_rectangles = 0
  /\ (pc = "read" /\ field = <<>>) =>
        /\ result = <<>> /\ rectangles = <<>> /\ covering = {}
        /\ strawberries = {} /\ num_rows = 0 /\ num_columns = 0

C26_MembersHoldStrawberries ==
  (max_rectangles > 1 /\ pc \in {"local", "label", "output", "finish"}) =>
    \A i \in 1..Len(result) :
      /\ result[i].weight >= 1
      /\ CellsOf(result[i]) \cap strawberries # {}

\* the same for the covers greedy_match leaves, before any step
C26_AfterGreedyMatch ==
  (max_rectangles > 1 /\ pc = "local" /\ steps = <<>>) =>
    \A i \in 1..Len(result) :
      /\ result[i].weight >= 1
      /\ CellsOf(result[i]) \cap strawberries # {}

\* r is the bounding box of the strawberries inside it: each of its four
\* sides holds one
TightBox(r) ==
  /\ \E b \in strawberries : b \in CellsOf(r) /\ b[1] = r.x0
  /\ \E b \in strawberries : b \in CellsOf(r) /\ b[1] = r.x1
  /\ \E b \in strawberries : b \in CellsOf(r) /\ b[2] = r.y0
  /\ \E b \in strawberries : b \in CellsOf(r) /\ b[2] = r.y1

\* C27: every rectangle accepted by greedy_match is the tight bounding box of
\* the strawberries it contains: its top row, bottom row, left column and
\* right column each contain at least one strawberry.
C27_AcceptedAreTight ==
  (pc = "match" \/ (pc = "local" /\ steps = <<>>)) =>
    \A i \in 1..Len(result) : TightBox(result[i])

\* greedy_match accepted a rectangle of several strawberries although the
\* candidate list holds a larger rectangle with the same strawberries
C27_Witness ==
  /\ pc = "match"
  /\ Len(result) = 1
  /\ result[1].weight >= 2
  /\ \E k \in 1..Len(rectangles) :
        /\ rectangles[k].weight = result[1].weight
        /\ CellsOf(result[1]) \subseteq CellsOf(rectangles[k])
        /\ CellsOf(result[1]) # CellsOf(rectangles[k])

\* the cells covered by the members of a cover
CoveredBy(cover) == UNION {CellsOf(cover[i]) : i \in 1..Len(cover)}

\* C28: the covered area never shrinks during local search: every cell
\* covered by a member before an applied step is covered by a member after
\* it; the join contains rec1, rec2 and the envelope, and every penumbra
\* original is contained in the union of the join and its residual.
C28_CoveredAreaGrows ==
  \A n \in 1..Len(steps) :
    LET shade  == steps[n].shade
        hull   == CellsOf(shade.join)
    IN  /\ CoveredBy(steps[n].before) \subseteq CoveredBy(steps[n].after)
        /\ CellsOf(shade.rec1) \subseteq hull
        /\ CellsOf(shade.rec2) \subseteq hull
        /\ \A k \in 1..Len(shade.envelope) : CellsOf(shade.envelope[k]) \subseteq hull
        /\ \A k \in 1..Len(shade.penumbra) :
              CellsOf(shade.penumbra[k].original)
                \subseteq (hull \cup CellsOf(shade.penumbra[k].slice))
        /\ hull \subseteq CoveredBy(steps[n].after)

\* a step that cut a member down to its residual has been applied, and it
\* covered cells that were not covered before
C28_Witness ==
  /\ steps # <<>>
  /\ steps[Len(steps)].shade.penumbra # <<>>
  /\ CoveredBy(steps[Len(steps)].before) # CoveredBy(steps[Len(steps)].after)

\* C29: the total cost of the cover can increase only while the cardinality
\* bound is exceeded: every Shade applied to a cover of at most K members
\* leaves the total cost equal or lower, so when greedy_match leaves at most K
\* members the cost of the cover is at most that of the greedy cover from
\* then on, the final cover included.
C29_CostGrowsOnlyAboveK ==
  /\ \A n \in 1..Len(steps) :
        Len(steps[n].before) <= steps[n].K
          => CostFromBounds(steps[n].after, Len(steps[n].after))
               <= CostFromBounds(steps[n].before, Len(steps[n].before))
  /\ \A n \in 1..Len(steps) :
        CostFromBounds(steps[n].after, Len(steps[n].after))
            > CostFromBounds(steps[n].before, Len(steps[n].before))
          => Len(steps[n].before) > steps[n].K
  /\ (/\ pc \in {"local", "label", "output", "finish"}
      /\ steps # <<>>
      /\ Len(steps[1].before) <= max_rectangles)
       => CostFromBounds(result, Len(result))
            <= CostFromBounds(steps[1].before, Len(steps[1].before))

\* local search has ended on a cover cheaper than the greedy cover, which had
\* several members and no more than K, after a step that left the cost as
\* it was
C29_Witness ==
  /\ pc = "label"
  /\ Len(steps) >= 2
  /\ Len(steps[1].before) <= max_rectangles
  /\ \E n \in 1..Len(steps) :
        CostFromBounds(steps[n].after, Len(steps[n].after))
          = CostFromBounds(steps[n].before, Len(steps[n].before))
  /\ CostFromBounds(result, Len(result))
       < CostFromBounds(steps[1].before, Len(steps[1].before))

\* every rectangle accepted so far holds a strawberry that no rectangle
\* accepted before it holds, and the accepted rectangles and the unmatched
\* strawberries together are at most as many as the strawberries
GreedyMatchVariant ==
  /\ (pc = "match" \/ (pc = "local" /\ steps = <<>>)) =>
        /\ \A i \in 1..Len(result) :
              \E b \in strawberries :
                /\ b \in CellsOf(result[i])
                /\ \A j \in 1..(i - 1) : b \notin CellsOf(result[j])
        /\ Len(result) <= Cardinality(strawberries)
        /\ strawberries = {} => result = <<>>
  /\ pc = "match" =>
        /\ Len(result) + Cardinality(unmatched) <= Cardinality(strawberries)
        /\ unmatched \subseteq StrawberryBits

\* C30: greedy matching terminates: each rectangle accepted by greedy_match
\* covers at least one strawberry that was unmatched before it was accepted,
\* so the loop runs at most once per strawberry and the greedy cover has at
\* most as many members as there are strawberries (none when the field has no
\* strawberry and K > 1); every call of greedy_match returns.
C30_GreedyTerminates ==
  /\ []GreedyMatchVariant
  /\ (pc = "match") ~> (pc = "local")

\* greedy_match has returned a cover of three or more members, fewer than the
\* strawberries
C30_Witness ==
  /\ pc = "local"
  /\ steps = <<>>
  /\ Len(result) >= 3
  /\ Len(result) < Cardinality(strawberries)

====
